---- MODULE Spec2Model ----
(***************************************************************************)
(* InkWeaver 1.2: the session store (services/storageService), the model   *)
(* fallback loop (services/geminiService), the chat application (App) and  *)
(* the character builder (components/CharacterBuilder).                    *)
(*                                                                         *)
(* Conventions.                                                            *)
(*   - Text is a sequence of tokens; string concatenation is \o and        *)
(*     String.includes is a search for a contiguous sub-sequence.          *)
(*   - A localStorage item is <<>> while the key is absent and <<v>> once  *)
(*     a value v has been written (JSON.stringify followed by JSON.parse   *)
(*     gives back the same plain data: the stored objects hold strings,    *)
(*     numbers, booleans and arrays only).                                 *)
(*   - Ids are Date.now() readings, modelled as positive integers; 0 is    *)
(*     null.                                                               *)
(*   - React: an action is one task of the event loop.  The task of a      *)
(*     click is the handler with the continuations that need no answer     *)
(*     from outside, React's render of its updates and the effects of      *)
(*     that render.  An asynchronous callback (a chunk, the end of a       *)
(*     response, a title, the answer to an "Inspire Me" request) only      *)
(*     queues its updates; React renders them in a later task, and the     *)
(*     effects of that render are passive: they stay pending and run       *)
(*     later on their own, or, at the latest, before the next render.      *)
(*     An update made by an effect is queued in the same way, whatever     *)
(*     render the effect belongs to.  Whether the render of a click takes  *)
(*     the queued updates along depends on the version of React, which     *)
(*     the sources do not fix.                                             *)
(***************************************************************************)
EXTENDS Integers, Sequences, FiniteSets, TLC

VARIABLES
    lsSessions,        \* localStorage['inkweaver_sessions']
    now,               \* Date.now()
    irregular,         \* StorageSpec: out-of-order calls made so far
    sessions,          \* App: sessions state
    currentSessionId,  \* App: currentSessionId state (0 is null)
    messages,          \* App: messages state, the transcript displayed
    isLoading,         \* App: isLoading state
    rsp,               \* the processResponse call in progress and where it stands
    titleReqs,         \* the generateTitle calls in flight: the session id each
                       \* was made for, in the order of the calls
    queued,            \* App: the updates asynchronous callbacks and effects
                       \* have handed to React and React has not rendered yet,
                       \* in their order
    pending,           \* App: the Save Session Effect of the last render has not
                       \* run yet
    shared,            \* App: the entry of the current session in the sessions
                       \* state holds the very array that is the messages state
    attempts,          \* models the running streamResponse call has tried, in order
    failures,          \* the errors those attempts failed with, in order
    emitted,           \* the chunks that call has passed to onChunk, in order
    sends,             \* responses started so far
    apiKeyOk,          \* whether the build injected process.env.API_KEY
    syncTakesDefault,  \* whether React's render of a click also processes the
                       \* updates queued by asynchronous callbacks (React 19) or
                       \* leaves them to the render scheduled for them (React 18)
    hist,              \* what has happened so far: deleted, the session ids
                       \* deleteChatSession was called with; events, the number
                       \* of events that have reached the chat from outside
                       \* React (clicks of the user, chunks of a response, the
                       \* clock advancing between two of them)
    lsCharacters,      \* localStorage['inkweaver_characters']
    characters,        \* CharacterBuilder: characters state
    activeCharId,      \* CharacterBuilder: activeCharId state (0 is null)
    formData,          \* CharacterBuilder: formData state
    loadingField,      \* CharacterBuilder: loadingField state ("" is null)
    charQueued,        \* CharacterBuilder: for each state hook, the updates React
                       \* has not rendered yet or has to apply again, in their order
    charBase,          \* CharacterBuilder: for each state hook, the state the
                       \* updates of charQueued are applied to
    charPending,       \* CharacterBuilder: the passive effects of the last render
                       \* that have not run yet, "save" and "sync"
    charReqs,          \* the field of the generateContent call in flight, if any
    charEvents,        \* the clicks and keystrokes that have reached the builder
    builder            \* CharacterBuilder: "unmounted"; "mounting", the effects of
                       \* the first render have run; "mounted", React has rendered
                       \* what the load effect queued

appVars == <<sessions, currentSessionId, messages, isLoading, rsp, titleReqs, queued,
             pending, shared, attempts, failures, emitted, sends, apiKeyOk,
             syncTakesDefault, hist>>

charVars == <<lsCharacters, characters, activeCharId, formData, loadingField, charQueued,
              charBase, charPending, charReqs, charEvents, builder>>

vars == <<lsSessions, now, irregular, sessions, currentSessionId, messages, isLoading,
          rsp, titleReqs, queued, pending, shared, attempts, failures, emitted, sends,
          apiKeyOk, syncTakesDefault, hist,
          lsCharacters, characters, activeCharId, formData, loadingField, charQueued,
          charBase, charPending, charReqs, charEvents, builder>>

----------------------------------------------------------------------------
(* services/storageService                                                 *)

\* saveSession keeps at most this many sessions
MaxSessions == 50

DefaultTitle == "New Story Idea"

NoHistory == [deleted |-> {}, events |-> 0]

\* CharacterBuilder: EMPTY_CHAR.  age stands for the fields that only
\* handleChange sets (age, notes), backstory for the five fields that have an
\* "Inspire Me" button as well (appearance, personality, backstory, goals,
\* relationships); a text is the sequence of its parts.
EMPTY_CHAR == [id |-> 0, name |-> "", role |-> "Protagonist", age |-> "", backstory |-> <<>>]

\* CharacterBuilder: the state hooks, in the order of their declaration
Hooks == {"characters", "activeCharId", "formData", "loadingField"}

\* CharacterBuilder: the state each hook is declared with
InitialState ==
    [characters |-> <<>>, activeCharId |-> 0, formData |-> EMPTY_CHAR, loadingField |-> ""]

\* no update queued for any hook
NoUpdates == [characters |-> <<>>, activeCharId |-> <<>>, formData |-> <<>>, loadingField |-> <<>>]

\* the character builder before it is first shown
CharUnmounted ==
    /\ lsCharacters = <<>>
    /\ characters = <<>>
    /\ activeCharId = 0
    /\ formData = EMPTY_CHAR
    /\ loadingField = ""
    /\ charQueued = NoUpdates
    /\ charBase = InitialState
    /\ charPending = {}
    /\ charReqs = <<>>
    /\ charEvents = 0
    /\ builder = "unmounted"

\* getSessions: the parsed item, or [] when the key is absent
getSessions(item) == IF item = <<>> THEN <<>> ELSE item[1]

\* list.findIndex(s => s.id === id), 1-based; 0 where the code has -1
findIndex(list, id) ==
    IF \E i \in 1..Len(list) : list[i].id = id
    THEN CHOOSE i \in 1..Len(list) :
             /\ list[i].id = id
             /\ \A j \in 1..(i - 1) : list[j].id # id
    ELSE 0

\* saveSession without its sort
sortNewestFirstSkipped(list) == list

\* Array.sort((a, b) => b.updatedAt - a.updatedAt): a stable sort, newest first
\* (a merge sort that takes the left element on a tie).
RECURSIVE mergeNewestFirst(_, _)
mergeNewestFirst(a, b) ==
    IF a = <<>> THEN b
    ELSE IF b = <<>> THEN a
    ELSE IF Head(b).updatedAt - Head(a).updatedAt > 0
         THEN <<Head(b)>> \o mergeNewestFirst(a, Tail(b))
         ELSE <<Head(a)>> \o mergeNewestFirst(Tail(a), b)

RECURSIVE sortNewestFirst(_)
sortNewestFirst(list) ==
    IF Len(list) <= 1 THEN list
    ELSE LET half == Len(list) \div 2
         IN  mergeNewestFirst(sortNewestFirst(SubSeq(list, 1, half)),
                              sortNewestFirst(SubSeq(list, half + 1, Len(list))))

\* slice0 keeping the last n elements instead of the first n
slice0KeepsLast(seq, n) ==
    SubSeq(seq, IF Len(seq) < n THEN 1 ELSE Len(seq) - n + 1, Len(seq))

\* slice0 cutting one element late
slice0OffByOne(seq, n) == SubSeq(seq, 1, IF Len(seq) < n + 1 THEN Len(seq) ELSE n + 1)

\* Array.slice(0, n)
slice0(seq, n) == SubSeq(seq, 1, IF Len(seq) < n THEN Len(seq) ELSE n)

\* saveSession(session): the list written to localStorage (and returned)
saveSession(item, session) ==
    LET list == getSessions(item)
        index    == findIndex(list, session.id)
        placed   == IF index > 0
                    THEN [list EXCEPT ![index] = session]
                    ELSE <<session>> \o list
    IN  slice0(sortNewestFirst(placed), MaxSessions)

\* deleteSession(sessionId): the list written to localStorage (and returned)
deleteSession(item, sessionId) ==
    SelectSeq(getSessions(item), LAMBDA s : s.id # sessionId)

storedIds(item) == {getSessions(item)[i].id : i \in 1..Len(getSessions(item))}

----------------------------------------------------------------------------
(* StorageSpec: saveSession and deleteSession called on their own, from    *)
(* empty storage.  The regular call saves a session not yet stored with    *)
(* the current clock reading; every other call (a stale timestamp, a       *)
(* session saved again, a deletion) counts as irregular.                   *)

NumIds == 52
MaxNow == 53
MaxIrregular == 1
MaxStale == 2

SessionIds == 1..NumIds

freshId(item) ==
    IF SessionIds \subseteq storedIds(item) THEN 0
    ELSE CHOOSE id \in SessionIds \ storedIds(item) :
             \A other \in SessionIds \ storedIds(item) : id <= other

newestId(item) == IF getSessions(item) = <<>> THEN 0 ELSE getSessions(item)[1].id

oldestId(item) ==
    IF getSessions(item) = <<>> THEN 0
    ELSE getSessions(item)[Len(getSessions(item))].id

mkSession(id, t) ==
    [id |-> id, title |-> DefaultTitle, messages |-> <<>>, updatedAt |-> t]

StorageInit ==
    /\ lsSessions = <<>>
    /\ now = 1
    /\ irregular = 0
    /\ sessions = <<>>
    /\ currentSessionId = 0
    /\ messages = <<>>
    /\ isLoading = FALSE
    /\ rsp = <<>>
    /\ titleReqs = <<>>
    /\ queued = <<>>
    /\ pending = FALSE
    /\ shared = FALSE
    /\ attempts = <<>>
    /\ failures = <<>>
    /\ emitted = <<>>
    /\ sends = 0
    /\ apiKeyOk = TRUE
    /\ syncTakesDefault = FALSE
    /\ hist = NoHistory
    /\ CharUnmounted

\* saveSession({id, updatedAt: Date.now()}) for a session not yet stored
StorageSaveNew ==
    /\ now < MaxNow
    /\ freshId(lsSessions) # 0
    /\ lsSessions' = <<saveSession(lsSessions, mkSession(freshId(lsSessions), now))>>
    /\ now' = now + 1
    /\ UNCHANGED <<irregular, appVars, charVars>>

\* saveSession of a new session carrying an old timestamp
StorageSaveStale ==
    /\ irregular < MaxIrregular
    /\ freshId(lsSessions) # 0
    /\ \E t \in {0, MaxStale} :
          lsSessions' = <<saveSession(lsSessions, mkSession(freshId(lsSessions), t))>>
    /\ irregular' = irregular + 1
    /\ UNCHANGED <<now, appVars, charVars>>

\* saveSession of a session that is stored already
StorageSaveAgain ==
    /\ irregular < MaxIrregular
    /\ now < MaxNow
    /\ \E id \in {newestId(lsSessions), oldestId(lsSessions)} \ {0} :
          lsSessions' = <<saveSession(lsSessions, mkSession(id, now))>>
    /\ now' = now + 1
    /\ irregular' = irregular + 1
    /\ UNCHANGED <<appVars, charVars>>

\* deleteSession(id)
StorageDelete ==
    /\ irregular < MaxIrregular
    /\ \E id \in {newestId(lsSessions), oldestId(lsSessions), NumIds} \ {0} :
          lsSessions' = <<deleteSession(lsSessions, id)>>
    /\ irregular' = irregular + 1
    /\ UNCHANGED <<now, appVars, charVars>>

StorageNext ==
    \/ StorageSaveNew
    \/ StorageSaveStale
    \/ StorageSaveAgain
    \/ StorageDelete

StorageSpec == StorageInit /\ [][StorageNext]_vars

----------------------------------------------------------------------------
(* services/geminiService                                                  *)

\* String.includes(pat): pat occurs in text as a contiguous run
includes(text, pat) ==
    \E i \in 0..(Len(text) - Len(pat)) :
        \A k \in 1..Len(pat) : text[i + k] = pat[k]

\* the literals the service searches error texts for, one token per character
P403 == <<"4", "0", "3">>
P429 == <<"4", "2", "9">>
P503 == <<"5", "0", "3">>
PNotFound == <<"n", "o", "t", " ", "f", "o", "u", "n", "d">>
PPermissionDenied == <<"P", "E", "R", "M", "I", "S", "S", "I", "O", "N", "_", "D", "E", "N", "I", "E", "D">>
PResourceExhausted == <<"R", "E", "S", "O", "U", "R", "C", "E", "_", "E", "X", "H", "A", "U", "S", "T", "E", "D">>
PProcessNotDefined == <<"p", "r", "o", "c", "e", "s", "s", " ", "i", "s", " ", "n", "o", "t", " ", "d", "e", "f", "i", "n", "e", "d">>
PSafety == <<"S", "a", "f", "e", "t", "y">>
PApiKey == <<"A", "P", "I", "_", "K", "E", "Y">>

\* An error is [name, message, json]: error.toString() is "name: message" and
\* json is JSON.stringify(error).
toString(error) ==
    IF error.message = <<>> THEN error.name
    ELSE error.name \o <<":", " ">> \o error.message

\* streamResponse, catch: errStr = error.toString() + JSON.stringify(error)
errStr(error) == toString(error) \o error.json

\* isRecoverable without the "503" test
isRecoverableNo503(error) ==
    \/ includes(errStr(error), P403)
    \/ includes(errStr(error), P429)
    \/ includes(errStr(error), PNotFound)
    \/ includes(errStr(error), PPermissionDenied)
    \/ includes(errStr(error), PResourceExhausted)

\* streamResponse, catch: whether the next model is to be tried
isRecoverable(error) ==
    \/ includes(errStr(error), P403)
    \/ includes(errStr(error), P429)
    \/ includes(errStr(error), P503)
    \/ includes(errStr(error), PNotFound)
    \/ includes(errStr(error), PPermissionDenied)
    \/ includes(errStr(error), PResourceExhausted)

\* getFriendlyErrorMessage(error); the fixed messages are one token each
getFriendlyErrorMessage(error) ==
    LET msg == toString(error) \o error.json
    IN  IF includes(msg, PProcessNotDefined)
            THEN <<"[System Error: Configuration failed.]">>
        ELSE IF includes(msg, P403) \/ includes(msg, PPermissionDenied)
            THEN <<"[System Error: Access Denied.]">>
        ELSE IF includes(msg, P429) \/ includes(msg, PResourceExhausted)
            THEN <<"[System Error: Quota Exceeded.]">>
        ELSE IF includes(msg, PSafety)
            THEN <<"[System: safety filters.]">>
        ELSE IF includes(msg, PApiKey)
            THEN <<"[System Error: Invalid API Key.]">>
        ELSE <<"[System Error: ">>
             \o (IF error.message = <<>>
                 THEN <<"An unexpected error occurred.">>
                 ELSE error.message)
             \o <<"]">>

\* errorChunk reporting the first failure of the call instead of the given one
errorChunkOfFirst(error) ==
    <<"\n\n">> \o getFriendlyErrorMessage(IF failures = <<>> THEN error ELSE failures[1])

\* the chunk streamResponse passes to onChunk for an error
errorChunk(error) == <<"\n\n">> \o getFriendlyErrorMessage(error)

\* modelsToTry with the two flash models swapped
modelsToTrySwapped ==
    <<"gemini-3-pro-preview", "gemini-2.5-flash-latest", "gemini-3-flash-preview">>

\* streamResponse: modelsToTry
modelsToTry == <<"gemini-3-pro-preview", "gemini-3-flash-preview", "gemini-2.5-flash-latest">>

\* the errors an attempt may fail with
Err403 ==
    [name |-> <<"A", "p", "i", "E", "r", "r", "o", "r">>,
     message |-> <<"g", "o", "t", " ", "s", "t", "a", "t", "u", "s", ":", " ", "4", "0", "3">>,
     json |-> <<"{", "}">>]
Err429 ==
    [name |-> <<"A", "p", "i", "E", "r", "r", "o", "r">>,
     message |-> <<"4", "2", "9", " ", "T", "o", "o", " ", "M", "a", "n", "y", " ", "R", "e", "q", "u", "e", "s", "t", "s">>,
     json |-> <<"{", "}">>]
Err503 ==
    [name |-> <<"A", "p", "i", "E", "r", "r", "o", "r">>,
     message |-> <<"x">>,
     json |-> <<"{", "\"", "s", "t", "a", "t", "u", "s", "\"", ":", "5", "0", "3", "}">>]
ErrNotFound ==
    [name |-> <<"A", "p", "i", "E", "r", "r", "o", "r">>,
     message |-> <<"m", "o", "d", "e", "l", " ", "n", "o", "t", " ", "f", "o", "u", "n", "d">>,
     json |-> <<"{", "}">>]
ErrPermission ==
    [name |-> <<"A", "p", "i", "E", "r", "r", "o", "r">>,
     message |-> <<"P", "E", "R", "M", "I", "S", "S", "I", "O", "N", "_", "D", "E", "N", "I", "E", "D">>,
     json |-> <<"{", "}">>]
ErrExhausted ==
    [name |-> <<"A", "p", "i", "E", "r", "r", "o", "r">>,
     message |-> <<"R", "E", "S", "O", "U", "R", "C", "E", "_", "E", "X", "H", "A", "U", "S", "T", "E", "D">>,
     json |-> <<"{", "}">>]
ErrNotFoundCaps ==
    [name |-> <<"A", "p", "i", "E", "r", "r", "o", "r">>,
     message |-> <<"4", "0", "4", " ", "N", "o", "t", " ", "F", "o", "u", "n", "d">>,
     json |-> <<"{", "}">>]
ErrBadRequest ==
    [name |-> <<"A", "p", "i", "E", "r", "r", "o", "r">>,
     message |-> <<"4", "0", "0", " ", "b", "a", "d", " ", "r", "e", "q", "u", "e", "s", "t">>,
     json |-> <<"{", "}">>]
ErrSafety ==
    [name |-> <<"E", "r", "r", "o", "r">>,
     message |-> <<"S", "a", "f", "e", "t", "y">>,
     json |-> <<"{", "}">>]
ErrEmpty ==
    [name |-> <<"T", "y", "p", "e", "E", "r", "r", "o", "r">>,
     message |-> <<>>,
     json |-> <<"{", "}">>]

AllErrors ==
    {Err403,
     Err429,
     Err503,
     ErrNotFound,
     ErrPermission,
     ErrExhausted,
     ErrNotFoundCaps,
     ErrBadRequest,
     ErrSafety,
     ErrEmpty}

\* the errors FairSpec draws from: one that moves on to the next model and one
\* that ends the call
AppErrors == {Err503, ErrBadRequest}

\* the errors Spec draws from: the call ends at the first failure
FatalErrors == {ErrBadRequest}

\* bound of the application specifications: the events that reach the chat from
\* outside React, which are the clicks of the user, the chunks of a response
\* and the advances of the clock between two of them.  What React and the
\* pending promises do after an event is not bounded.
MaxEvents == 3

----------------------------------------------------------------------------
(* App                                                                     *)

\* INITIAL_MESSAGE; its id 'init' is 0 here
INITIAL_MESSAGE ==
    [id |-> 0, role |-> "model", content |-> <<"Greetings.">>,
     isStreaming |-> FALSE, isError |-> FALSE, groundingSources |-> <<>>]

\* updatedSession holding the transcript of the render before (a stale closure)
updatedSessionStale(sess, cur, msgs, t) ==
    LET index == findIndex(sess, cur)
        title == IF index > 0 /\ sess[index].title # "" THEN sess[index].title
                 ELSE DefaultTitle
    IN  [id |-> cur, title |-> title, messages |-> messages, updatedAt |-> t]

\* Save Session Effect: the session it builds
updatedSession(sess, cur, msgs, t) ==
    LET index == findIndex(sess, cur)
        title == IF index > 0 /\ sess[index].title # "" THEN sess[index].title
                 ELSE DefaultTitle
    IN  [id |-> cur, title |-> title, messages |-> msgs, updatedAt |-> t]

\* Save Session Effect: whether it saves
effectSaves(cur, msgs) == Len(msgs) > 1 /\ cur # 0

\* Save Session Effect of a render with the state sess, cur, msgs, run while the
\* stored item is item: whether it saved, the item it leaves and the list it
\* passes to setSessions
SaveSessionEffect(item, sess, cur, msgs) ==
    IF effectSaves(cur, msgs)
    THEN LET newSessionList == saveSession(item, updatedSession(sess, cur, msgs, now))
         IN  [saved |-> TRUE, item |-> <<newSessionList>>, sess |-> newSessionList]
    ELSE [saved |-> FALSE, item |-> item, sess |-> sess]

\* prev.map(m => m.id === botMsgId ? { ...m, content: accumulatedText } : m)
withContent(msgs, botMsgId, accumulatedText) ==
    [i \in 1..Len(msgs) |->
        IF msgs[i].id = botMsgId
        THEN [msgs[i] EXCEPT !.content = accumulatedText] ELSE msgs[i]]

\* prev.map(m => m.id === botMsgId ? { ...m, groundingSources: collectedSources }
\* : m)
withSources(msgs, botMsgId, collectedSources) ==
    [i \in 1..Len(msgs) |->
        IF msgs[i].id = botMsgId
        THEN [msgs[i] EXCEPT !.groundingSources = collectedSources] ELSE msgs[i]]

\* prev.map(m => m.id === botMsgId ? { ...m, content: m.content + text,
\* isError: true } : m)
withError(msgs, botMsgId, text) ==
    [i \in 1..Len(msgs) |->
        IF msgs[i].id = botMsgId
        THEN [msgs[i] EXCEPT !.content = @ \o text, !.isError = TRUE] ELSE msgs[i]]

\* prev.map(m => m.id === botMsgId ? { ...m, isStreaming: false } : m)
withoutStreaming(msgs, botMsgId) ==
    [i \in 1..Len(msgs) |->
        IF msgs[i].id = botMsgId
        THEN [msgs[i] EXCEPT !.isStreaming = FALSE] ELSE msgs[i]]

\* prev.map(s => s.id === currentSessionId ? { ...s, title } : s)
withTitle(sess, id, title) ==
    [i \in 1..Len(sess) |->
        IF sess[i].id = id THEN [sess[i] EXCEPT !.title = title] ELSE sess[i]]

\* The updates React has been handed outside the handler of a click and has not
\* rendered yet are kept in queued, in their order.  op names the update:
\* "content", "sources", "isStreaming" (the three maps over messages, for the
\* message id), "isLoading" (setIsLoading(false)), "title" (the map over
\* sessions, for the session id, arg = <<title>>), "sessions" (the
\* setSessions(newSessionList) of a Save Session Effect run for the session id,
\* arg = <<newSessionList, fresh, twin>>).  accumulatedText and collectedSources
\* are read when the updater runs; every later change of them queues a further
\* updater, so that the value at the time of the call gives the same state.
\* newSessionList is the list parsed from storage with updatedSession in it, so
\* that the only array it shares with anything is the transcript of its effect:
\* fresh says that this array is the messages state, twin that it is also held by
\* the sessions state.
isMessagesUpdate(u) == u.op \in {"content", "sources", "isStreaming"}

isSessionsUpdate(u) == u.op \in {"title", "sessions"}

hasMessagesUpdate(q) == \E i \in 1..Len(q) : isMessagesUpdate(q[i])

\* setSessions(newSessionList) of an effect run for session cur while the
\* sessions state did (inState) or did not hold the array that is messages
setSessionsUpdate(newSessionList, cur, inState) ==
    [op |-> "sessions", id |-> cur, arg |-> <<newSessionList, TRUE, inState>>]

\* messages after the updaters of q, in their order
RECURSIVE applyMessages(_, _)
applyMessages(msgs, q) ==
    IF q = <<>> THEN msgs
    ELSE applyMessages(
             CASE q[1].op = "content" -> withContent(msgs, q[1].id, q[1].arg)
               [] q[1].op = "sources" -> withSources(msgs, q[1].id, q[1].arg)
               [] q[1].op = "isStreaming" -> withoutStreaming(msgs, q[1].id)
               [] OTHER -> msgs,
             Tail(q))

\* sessions after the updates of q, in their order
RECURSIVE applySessions(_, _)
applySessions(sess, q) ==
    IF q = <<>> THEN sess
    ELSE applySessions(
             CASE q[1].op = "title" -> withTitle(sess, q[1].id, q[1].arg[1])
               [] q[1].op = "sessions" -> q[1].arg[1]
               [] OTHER -> sess,
             Tail(q))

\* isLoading after the updates of q
applyLoading(loading, q) ==
    IF \E i \in 1..Len(q) : q[i].op = "isLoading" THEN FALSE ELSE loading

\* the last setSessions(newSessionList) of q, 0 when it has none
lastSessionsSet(q) ==
    IF \E i \in 1..Len(q) : q[i].op = "sessions"
    THEN CHOOSE i \in 1..Len(q) :
             /\ q[i].op = "sessions"
             /\ \A j \in (i + 1)..Len(q) : q[j].op # "sessions"
    ELSE 0

\* whether the sessions state holds the array that is messages, after the
\* updates of q, inState saying whether it did before
sharedAfter(inState, q) ==
    IF lastSessionsSet(q) = 0 THEN inState ELSE q[lastSessionsSet(q)].arg[2]

\* q once messages has become a new array: no list holds it
staleLists(q) ==
    [i \in 1..Len(q) |->
        IF q[i].op = "sessions"
        THEN [q[i] EXCEPT !.arg = <<q[i].arg[1], FALSE, q[i].arg[3]>>]
        ELSE q[i]]

\* q once the sessions state has become a list parsed from storage
orphanLists(q) ==
    [i \in 1..Len(q) |->
        IF q[i].op = "sessions"
        THEN [q[i] EXCEPT !.arg = <<q[i].arg[1], q[i].arg[2], FALSE>>]
        ELSE q[i]]

\* q once messages has become the array the sessions state holds for session id
loadedLists(q, id) ==
    [i \in 1..Len(q) |->
        IF q[i].op = "sessions"
        THEN [q[i] EXCEPT !.arg = <<q[i].arg[1], q[i].arg[3] /\ q[i].id = id,
                                    q[i].arg[3]>>]
        ELSE q[i]]

\* The updates of q that still change something after a render that did not
\* process them: an updater queued before a hook was set to a value is applied
\* under that value when React rebases, and the value stays.
remaining(q, setsMsgs, setsSess, setsLoading) ==
    SelectSeq(q, LAMBDA u : /\ ~(setsMsgs /\ isMessagesUpdate(u))
                            /\ ~(setsSess /\ isSessionsUpdate(u))
                            /\ ~(setsLoading /\ u.op = "isLoading"))

\* The state of App a render works on: the six state items of the model, with
\* the stored item
app(item) ==
    [item |-> item, sessions |-> sessions, currentSessionId |-> currentSessionId,
     messages |-> messages, isLoading |-> isLoading, shared |-> shared,
     pending |-> pending, queued |-> queued]

\* What React does in the task of a click, after the body of a handler, or of
\* a continuation of it that runs within the task, which found App as a, with
\* the stored item a.item, and set sessions to sess1[1] (sess1 = <<>>: not set),
\* messages to msgs1[1], currentSessionId to cur1 and isLoading to load1[1].
\* msgs1[1] is a new array, or (fromState) the array the sessions state holds
\* for session cur1, which may be (same) the messages state itself.  A pending
\* Save Session Effect runs first, with the state of the render it belongs to;
\* its setSessions is queued behind the updates of the body.  The render
\* processes the updates of the click, and the queued ones too when it takes
\* those along.  The Save Session Effect of this render is due when messages or
\* currentSessionId changed; it runs within the task, with the state rendered,
\* and its setSessions is left to a later render.
clickRendered(a, sess1, msgs1, fromState, same, cur1, load1) ==
    LET old      == IF a.pending
                    THEN SaveSessionEffect(a.item, a.sessions, a.currentSessionId,
                                           a.messages)
                    ELSE [saved |-> FALSE, item |-> a.item, sess |-> a.sessions]
        oldSet   == IF old.saved
                    THEN <<setSessionsUpdate(old.sess, a.currentSessionId, a.shared)>>
                    ELSE <<>>
        taken    == IF syncTakesDefault THEN a.queued ELSE <<>>
        left     == IF syncTakesDefault THEN <<>>
                    ELSE remaining(a.queued, msgs1 # <<>>, sess1 # <<>>, load1 # <<>>)
        \* the sessions state rendered, and whether it holds the old messages array
        sess2    == IF sess1 # <<>>
                    THEN applySessions(sess1[1], IF syncTakesDefault THEN oldSet ELSE <<>>)
                    ELSE applySessions(a.sessions, taken \o (IF syncTakesDefault
                                                             THEN oldSet ELSE <<>>))
        rendered == taken \o (IF syncTakesDefault THEN oldSet ELSE <<>>)
        keeps    == IF sess1 # <<>>
                    THEN syncTakesDefault /\ oldSet # <<>>
                    ELSE sharedAfter(a.shared, rendered)
        \* the list rendered last holds the array loaded from the sessions state
        holds    == IF sess1 # <<>> THEN FALSE
                    ELSE IF lastSessionsSet(rendered) = 0 THEN TRUE
                    ELSE /\ rendered[lastSessionsSet(rendered)].arg[3]
                         /\ rendered[lastSessionsSet(rendered)].id = cur1
        later    == IF syncTakesDefault THEN <<>>
                    ELSE (IF sess1 # <<>> THEN orphanLists(left \o oldSet)
                          ELSE left \o oldSet)
        \* the messages state rendered
        msgs2    == IF msgs1 # <<>> THEN msgs1[1] ELSE applyMessages(a.messages, taken)
        fresh    == IF msgs1 # <<>> THEN ~fromState ELSE hasMessagesUpdate(taken)
        loaded   == msgs1 # <<>> /\ fromState /\ ~same
        shared2  == IF fresh THEN FALSE ELSE IF loaded THEN holds ELSE keeps
        later2   == IF fresh THEN staleLists(later)
                    ELSE IF loaded THEN loadedLists(later, cur1) ELSE later
        due      == fresh \/ loaded \/ cur1 # a.currentSessionId
        new      == IF due THEN SaveSessionEffect(old.item, sess2, cur1, msgs2)
                    ELSE [saved |-> FALSE, item |-> old.item, sess |-> sess2]
    IN  [item |-> new.item,
         sessions |-> sess2,
         currentSessionId |-> cur1,
         messages |-> msgs2,
         isLoading |-> IF load1 # <<>> THEN load1[1]
                       ELSE applyLoading(a.isLoading, taken),
         shared |-> shared2,
         pending |-> FALSE,
         queued |-> later2 \o (IF new.saved
                               THEN <<setSessionsUpdate(new.sess, cur1, shared2)>>
                               ELSE <<>>)]

\* App and the stored item become a
appBecomes(a) ==
    \E b \in {a} :
        /\ lsSessions' = b.item
        /\ sessions' = b.sessions
        /\ currentSessionId' = b.currentSessionId
        /\ messages' = b.messages
        /\ isLoading' = b.isLoading
        /\ shared' = b.shared
        /\ pending' = b.pending
        /\ queued' = b.queued

\* the task of a click whose handler runs to its end before React renders: the
\* body left the stored item item1
ClickRender(item1, sess1, msgs1, fromState, same, cur1, load1) ==
    \E a \in {app(item1)} :
        appBecomes(clickRendered(a, sess1, msgs1, fromState, same, cur1, load1))

\* React renders the updates queued, in a task of its own.  A pending Save
\* Session Effect runs first, and its setSessions is taken into the render,
\* behind the queued updates.  The Save Session Effect of this render is due when
\* messages changed (every map gives a new array) and stays pending.
renderQueued ==
    /\ queued # <<>>
    /\ LET old     == IF pending
                      THEN SaveSessionEffect(lsSessions, sessions, currentSessionId,
                                             messages)
                      ELSE [saved |-> FALSE, item |-> lsSessions, sess |-> sessions]
           all     == queued \o (IF old.saved
                                 THEN <<setSessionsUpdate(old.sess, currentSessionId,
                                                          shared)>>
                                 ELSE <<>>)
           changed == hasMessagesUpdate(queued)
       IN  /\ messages' = applyMessages(messages, all)
           /\ sessions' = applySessions(sessions, all)
           /\ isLoading' = applyLoading(isLoading, all)
           /\ lsSessions' = old.item
           /\ pending' = changed
           /\ shared' = (~changed /\ sharedAfter(shared, all))
    /\ queued' = <<>>
    /\ UNCHANGED <<currentSessionId, now, rsp, titleReqs, attempts, failures, emitted,
                   sends, irregular, apiKeyOk, syncTakesDefault, hist, charVars>>

\* the pending Save Session Effect runs on its own: it saves, and React is
\* handed the list for a later render
flushPassiveEffects ==
    /\ pending
    /\ LET e == SaveSessionEffect(lsSessions, sessions, currentSessionId, messages)
       IN  /\ lsSessions' = e.item
           /\ queued' = queued \o (IF e.saved
                                   THEN <<setSessionsUpdate(e.sess, currentSessionId,
                                                            shared)>>
                                   ELSE <<>>)
    /\ pending' = FALSE
    /\ UNCHANGED <<sessions, shared, messages, currentSessionId, now, isLoading, rsp,
                   titleReqs, attempts, failures, emitted, sends, irregular, apiKeyOk,
                   syncTakesDefault, hist, charVars>>

\* time passes
tick ==
    /\ hist.events < MaxEvents
    /\ now' = now + 1
    /\ hist' = [hist EXCEPT !.events = @ + 1]
    /\ UNCHANGED <<lsSessions, irregular, sessions, currentSessionId, messages,
                   isLoading, rsp, titleReqs, queued, pending, shared, attempts,
                   failures, emitted, sends, apiKeyOk, syncTakesDefault, charVars>>

\* processResponse, title generation: isDefaultTitle
isDefaultTitle(sess, cur) ==
    \/ findIndex(sess, cur) = 0
    \/ sess[findIndex(sess, cur)].title = DefaultTitle
    \/ sess[findIndex(sess, cur)].title = "Untitled Story"

\* processResponse, title generation: whether generateTitle is called
startsTitle(sess, cur, history) ==
    cur # 0 /\ Len(history) <= 4 /\ isDefaultTitle(sess, cur)

\* handleRegenerate: the index of the last user message, 0 where the code has -1
lastUserMsgIndex(msgs) ==
    IF \E i \in 1..Len(msgs) : msgs[i].role = "user"
    THEN CHOOSE i \in 1..Len(msgs) :
             /\ msgs[i].role = "user"
             /\ \A j \in (i + 1)..Len(msgs) : msgs[j].role # "user"
    ELSE 0

\* rsp.pc: "idle" before the first call; "streaming" while streamResponse tries
\* model rsp.attempt; "returned" once streamResponse has returned and "thrown"
\* once it has thrown, the finally block of processResponse having run in the
\* same task.
Idle ==
    [pc |-> "idle", botMsgId |-> 0, accumulatedText |-> <<>>,
     collectedSources |-> <<>>, attempt |-> 0, lastError |-> <<>>]

Init ==
    /\ lsSessions = <<>>
    /\ now = 1
    /\ irregular = 0
    /\ sessions = <<>>
    /\ currentSessionId = 0
    /\ messages = <<INITIAL_MESSAGE>>
    /\ isLoading = FALSE
    /\ rsp = Idle
    /\ titleReqs = <<>>
    /\ queued = <<>>
    /\ pending = FALSE
    /\ shared = FALSE
    /\ attempts = <<>>
    /\ failures = <<>>
    /\ emitted = <<>>
    /\ sends = 0
    /\ apiKeyOk \in BOOLEAN
    /\ syncTakesDefault \in BOOLEAN
    /\ hist = NoHistory
    /\ CharUnmounted

\* processResponse, catch: the text appended to the placeholder
FailsafeText ==
    <<"\n\n[System Error: An unexpected error occurred. Please check console.]">>

\* processResponse, catch: the messages it leaves
responseCatch(msgs, botMsgId) == withError(msgs, botMsgId, FailsafeText)

\* processResponse, finally: the updates it queues
responseFinally(botMsgId) ==
    <<[op |-> "isLoading", id |-> 0, arg |-> <<>>],
      [op |-> "isStreaming", id |-> botMsgId, arg |-> <<>>]>>

\* processResponse(history, userText), called by a handler whose render had
\* currentSessionId cur; newCur is the session id the handler has set.  With the
\* API key it runs up to its await of streamResponse, and React renders.  Without
\* it getAI() throws: generateTitle rejects, so that its .then callback never
\* runs, and streamResponse rejects before its first await, so that the catch
\* and the finally block run within the task of the click, after the render of
\* what the body set: React renders the transcript with the placeholder, the
\* Save Session Effect of that render saves it, and then React renders what the
\* catch and the finally block set, with the Save Session Effect of that render.
processResponse(history, cur, newCur) ==
    LET botMsgId == now + 1
        botMsgPlaceholder ==
            [id |-> botMsgId, role |-> "model", content |-> <<>>,
             isStreaming |-> TRUE, isError |-> FALSE, groundingSources |-> <<>>]
        started  == history \o <<botMsgPlaceholder>>
        finished == applyMessages(responseCatch(started, botMsgId),
                                  responseFinally(botMsgId))
    IN  /\ titleReqs' = IF startsTitle(sessions, cur, history) /\ apiKeyOk
                        THEN Append(titleReqs, cur) ELSE titleReqs
        /\ rsp' = [Idle EXCEPT !.pc = IF apiKeyOk THEN "streaming" ELSE "thrown",
                               !.botMsgId = botMsgId,
                               !.attempt = IF apiKeyOk THEN 1 ELSE 0]
        /\ attempts' = IF apiKeyOk THEN <<modelsToTry[1]>> ELSE <<>>
        /\ failures' = <<>>
        /\ emitted' = <<>>
        /\ \E awaiting \in {clickRendered(app(lsSessions), <<>>, <<started>>, FALSE,
                                          FALSE, newCur, <<TRUE>>)} :
              IF apiKeyOk
              THEN appBecomes(awaiting)
              ELSE appBecomes(clickRendered(
                       awaiting, <<>>, <<finished>>, FALSE, FALSE, newCur,
                       <<applyLoading(TRUE, responseFinally(botMsgId))>>))
        /\ now' = now + 2
        /\ sends' = sends + 1
        /\ hist' = [hist EXCEPT !.events = @ + 1]
        /\ UNCHANGED <<irregular, apiKeyOk, syncTakesDefault, charVars>>

\* handleSend with inputText.trim() = userText
handleSend(userText) ==
    /\ ~isLoading
    /\ hist.events < MaxEvents
    /\ LET newCur  == IF currentSessionId = 0 THEN now ELSE currentSessionId
           userMsg == [id |-> now, role |-> "user", content |-> userText,
                       isStreaming |-> FALSE, isError |-> FALSE,
                       groundingSources |-> <<>>]
       IN  processResponse(messages \o <<userMsg>>, currentSessionId, newCur)

\* handleRegenerate, from the Regenerate button, which ChatMessage shows under
\* the last message when that is a message of the model and is not streaming
handleRegenerate ==
    /\ ~isLoading
    /\ Len(messages) >= 2
    /\ messages[Len(messages)].role # "user"
    /\ ~messages[Len(messages)].isStreaming
    /\ lastUserMsgIndex(messages) # 0
    /\ hist.events < MaxEvents
    /\ processResponse(SubSeq(messages, 1, lastUserMsgIndex(messages)),
                       currentSessionId, currentSessionId)

\* createNewChat
createNewChat ==
    /\ hist.events < MaxEvents
    /\ ClickRender(lsSessions, <<>>, <<(<<INITIAL_MESSAGE>>)>>, FALSE, FALSE, now, <<>>)
    /\ now' = now + 1
    /\ hist' = [hist EXCEPT !.events = @ + 1]
    /\ UNCHANGED <<rsp, titleReqs, attempts, failures, emitted, sends, irregular,
                   apiKeyOk, syncTakesDefault, charVars>>

\* loadSession(session), session being entry i of the session list shown.  Where
\* the entry holds the very array that is the messages state (shared) and React
\* has nothing queued, the updates change no state: nothing is rendered and no
\* effect runs.
loadSession(i) ==
    /\ i \in 1..Len(sessions)
    /\ hist.events < MaxEvents
    /\ hist' = [hist EXCEPT !.events = @ + 1]
    /\ LET same == sessions[i].id = currentSessionId /\ shared
       IN  IF same /\ queued = <<>>
           THEN UNCHANGED <<messages, currentSessionId, isLoading, lsSessions, sessions,
                            pending, shared, queued>>
           ELSE ClickRender(lsSessions, <<>>, <<sessions[i].messages>>, TRUE, same,
                            sessions[i].id, <<>>)
    /\ UNCHANGED <<now, rsp, titleReqs, attempts, failures, emitted, sends,
                   irregular, apiKeyOk, syncTakesDefault, charVars>>

\* deleteChatSession(e, id), id being that of entry i of the session list shown
deleteChatSession(i) ==
    /\ i \in 1..Len(sessions)
    /\ hist.events < MaxEvents
    /\ LET id      == sessions[i].id
           updated == deleteSession(lsSessions, id)
       IN  /\ hist' = [hist EXCEPT !.deleted = @ \cup {id}, !.events = @ + 1]
           /\ IF currentSessionId = id
              THEN /\ ClickRender(<<updated>>, <<updated>>, <<(<<INITIAL_MESSAGE>>)>>,
                                  FALSE, FALSE, now, <<>>)
                   /\ now' = now + 1
              ELSE /\ ClickRender(<<updated>>, <<updated>>, <<>>, FALSE, FALSE,
                                  currentSessionId, <<>>)
                   /\ UNCHANGED now
    /\ UNCHANGED <<rsp, titleReqs, attempts, failures, emitted, sends, irregular,
                   apiKeyOk, syncTakesDefault, charVars>>

\* generateTitle(userText).then(...) of call k in flight, answering title: the
\* callback queues the updater of sessions and writes the title to storage
titleDone(k, title) ==
    /\ k \in 1..Len(titleReqs)
    /\ LET sid    == titleReqs[k]
           index  == findIndex(getSessions(lsSessions), sid)
       IN  /\ titleReqs' = SubSeq(titleReqs, 1, k - 1)
                               \o SubSeq(titleReqs, k + 1, Len(titleReqs))
           /\ queued' = Append(queued, [op |-> "title", id |-> sid, arg |-> <<title>>])
           /\ lsSessions' =
                  IF index > 0
                  THEN <<saveSession(lsSessions,
                            [getSessions(lsSessions)[index] EXCEPT !.title = title])>>
                  ELSE lsSessions
    /\ UNCHANGED <<now, sessions, currentSessionId, messages, isLoading, rsp, pending,
                   shared, attempts, failures, emitted, sends, irregular, apiKeyOk,
                   syncTakesDefault, hist, charVars>>

\* what the models stream: the k-th chunk of text of a call
chunkText(k) == IF k % 2 = 1 THEN <<"Once">> ELSE <<" upon">>

Chunks == {chunkText(1), chunkText(2)}

\* the sources a chunk may carry (uris), after processStream's filter
SourceLists == {<<"ao3.org">>}

\* onChunk(textChunk), the first callback processResponse hands to
\* streamResponse: the update it queues
onChunk(textChunk) ==
    <<[op |-> "content", id |-> rsp.botMsgId, arg |-> rsp.accumulatedText \o textChunk]>>

\* onSources: collectedSources after the call
collectSources(collectedSources, sources) ==
    collectedSources
        \o SelectSeq(sources,
                     LAMBDA s : \A j \in 1..Len(collectedSources) : collectedSources[j] # s)

\* onSources(sources), the second callback: the update it queues
onSources(sources) ==
    <<[op |-> "sources", id |-> rsp.botMsgId,
       arg |-> collectSources(rsp.collectedSources, sources)]>>

\* processStream: a chunk arrives from the model being tried, with text, with
\* sources or with both; the callbacks queue their updates
streamChunk(textChunk, sources) ==
    /\ rsp.pc = "streaming"
    /\ hist.events < MaxEvents
    /\ textChunk # <<>> \/ sources # <<>>
    /\ textChunk # <<>> => textChunk = chunkText(Len(emitted) + 1)
    /\ queued' = queued \o (IF textChunk # <<>> THEN onChunk(textChunk) ELSE <<>>)
                        \o (IF sources # <<>> THEN onSources(sources) ELSE <<>>)
    /\ emitted' = IF textChunk # <<>>
                  THEN Append(emitted, [kind |-> "text", text |-> textChunk])
                  ELSE emitted
    /\ rsp' = [rsp EXCEPT !.accumulatedText = @ \o textChunk,
                          !.collectedSources = collectSources(@, sources)]
    /\ hist' = [hist EXCEPT !.events = @ + 1]
    /\ UNCHANGED <<lsSessions, now, sessions, currentSessionId, messages, isLoading,
                   titleReqs, pending, shared, attempts, failures, sends, irregular,
                   apiKeyOk, syncTakesDefault, charVars>>

\* the stream of the model being tried ends: streamResponse returns, and the
\* finally block of processResponse runs
streamSuccess ==
    /\ rsp.pc = "streaming"
    /\ rsp' = [rsp EXCEPT !.pc = "returned"]
    /\ queued' = queued \o responseFinally(rsp.botMsgId)
    /\ UNCHANGED <<lsSessions, now, sessions, currentSessionId, messages, isLoading,
                   titleReqs, pending, shared, attempts, failures, emitted, sends,
                   irregular, apiKeyOk, syncTakesDefault, hist, charVars>>

\* the model being tried fails with error: the catch of streamResponse's loop
\* and, after the last model, the code behind the loop; streamResponse then
\* returns, and the finally block of processResponse runs
streamFailure(error) ==
    /\ rsp.pc = "streaming"
    /\ failures' = Append(failures, error)
    /\ IF isRecoverable(error) /\ rsp.attempt < Len(modelsToTry)
       THEN /\ rsp' = [rsp EXCEPT !.attempt = @ + 1, !.lastError = <<error>>]
            /\ attempts' = Append(attempts, modelsToTry[rsp.attempt + 1])
            /\ UNCHANGED <<queued, emitted>>
       ELSE /\ queued' = queued \o onChunk(errorChunk(error))
                                \o responseFinally(rsp.botMsgId)
            /\ emitted' = Append(emitted, [kind |-> "error", text |-> errorChunk(error)])
            /\ rsp' = [rsp EXCEPT !.pc = "returned", !.lastError = <<error>>,
                                  !.accumulatedText = @ \o errorChunk(error)]
            /\ UNCHANGED attempts
    /\ UNCHANGED <<lsSessions, now, sessions, currentSessionId, messages, isLoading,
                   titleReqs, pending, shared, sends, irregular, apiKeyOk,
                   syncTakesDefault, hist, charVars>>

\* what generateTitle may return: the model's answer, which may be any text, the
\* default title included; "Untitled Story" for an empty answer; "New Story" when
\* both of its models fail
Titles == {"The Iron Crown", "New Story Idea", "Untitled Story", "New Story"}

UserTexts == {<<"a dragon story">>}

\* a streamResponse call in progress: a chunk, the end of the stream, or the
\* failure of the model being tried
Response(errors) ==
    \/ \E c \in Chunks \cup {<<>>}, s \in SourceLists \cup {<<>>} : streamChunk(c, s)
    \/ streamSuccess
    \/ \E e \in errors : streamFailure(e)

\* a response in progress, and what React has to do after the callbacks
Stream(errors) ==
    \/ Response(errors)
    \/ renderQueued
    \/ flushPassiveEffects

Next ==
    \/ \E t \in UserTexts : handleSend(t)
    \/ handleRegenerate
    \/ createNewChat
    \/ \E i \in 1..Len(sessions) : loadSession(i)
    \/ \E i \in 1..Len(sessions) : deleteChatSession(i)
    \/ \E k \in 1..Len(titleReqs), title \in Titles : titleDone(k, title)
    \/ Stream(FatalErrors)
    \/ tick

Spec == Init /\ [][Next]_vars

\* FairSpec: responses with the user loading and deleting sessions meanwhile.
\* The response steps are taken as long as one is possible: the API answers or
\* fails, and React renders what is queued.
FairNext ==
    \/ \E t \in UserTexts : handleSend(t)
    \/ handleRegenerate
    \/ \E i \in 1..Len(sessions) : loadSession(i)
    \/ \E i \in 1..Len(sessions) : deleteChatSession(i)
    \/ Stream(AppErrors)

FairSpec == Init /\ [][FairNext]_vars /\ WF_vars(Stream(AppErrors))

\* StreamSpec: streamResponse calls with every kind of error, nothing else going on
MaxCalls == 1

StreamNext ==
    \/ sends < MaxCalls /\ \E t \in UserTexts : handleSend(t)
    \/ Stream(AllErrors)

StreamSpec == Init /\ [][StreamNext]_vars

----------------------------------------------------------------------------
(* components/CharacterBuilder                                             *)

\* bound of the character specification: the clicks and keystrokes that reach
\* the builder, the clicks that show and leave it included.  What React and a
\* pending request do after them is not bounded.
MaxCharEvents == 5

Names == {"New Character", "Ann"}
Roles == {"Protagonist", "Mentor"}
Ages  == {"", "30"}

\* what the user types into the backstory, and what generateCharacterAttribute
\* answers: a text or, the model's text being empty, the empty string
Texts == {<<"An orphan.">>}
Results == {<<"Born at sea.">>, <<>>}


\* a call of a hook's setter: op "set" for a value, the other ops for the
\* updater functions of the component.  lane is "sync" for a call made while a
\* click or keystroke is handled, "default" for a call made by a passive effect
\* or after an await.
update(op, arg, lane) == [op |-> op, arg |-> arg, lane |-> lane]

\* the updates of two callers, in the order of the calls
enqueue(first, second) ==
    [characters   |-> first.characters \o second.characters,
     activeCharId |-> first.activeCharId \o second.activeCharId,
     formData     |-> first.formData \o second.formData,
     loadingField |-> first.loadingField \o second.loadingField]

\* the save effect without its test for an empty list
saveCharactersAlways(chars, item) == <<chars>>

\* the effect "Save to local storage whenever list changes": the item it leaves
saveCharacters(chars, item) == IF Len(chars) > 0 THEN <<chars>> ELSE item

\* prev.map(c => c.id === activeCharId ? formData : c)
syncCharacter(chars, active, form) ==
    [i \in 1..Len(chars) |-> IF chars[i].id = active THEN form ELSE chars[i]]

\* generateContent: prev[field] ? prev[field] + '\n\n' + result : result
inspired(text, result) ==
    IF text # <<>> THEN text \o <<"\n\n">> \o result ELSE result

\* the state an update makes of the state s of its hook
applyUpdate(u, s) ==
    CASE u.op = "set"     -> u.arg[1]
      [] u.op = "append"  -> Append(s, u.arg[1])
      [] u.op = "map"     -> syncCharacter(s, u.arg[1], u.arg[2])
      [] u.op = "change"  -> [s EXCEPT ![u.arg[1]] = u.arg[2]]
      [] u.op = "inspire" -> [s EXCEPT ![u.arg[1]] = inspired(@, u.arg[2])]

\* React's reducer for one hook: the updates of q are applied in their order to
\* the state s the hook's base state has become.  A render that takes the
\* default lane applies them all.  A render that does not skips the updates of
\* that lane: the state before the first one skipped becomes the base state, and
\* that update and every update after it stay queued, the applied ones too, for
\* the render that takes the default lane.
RECURSIVE updateReducer(_, _, _, _, _)
updateReducer(q, takesDefault, s, base, rest) ==
    IF q = <<>>
    THEN [memo |-> s, base |-> IF rest = <<>> THEN s ELSE base, rest |-> rest]
    ELSE IF q[1].lane = "default" /\ ~takesDefault
    THEN updateReducer(Tail(q), takesDefault, s,
                       IF rest = <<>> THEN s ELSE base, Append(rest, q[1]))
    ELSE updateReducer(Tail(q), takesDefault, applyUpdate(q[1], s), base,
                       IF rest = <<>> THEN rest
                       ELSE Append(rest, [q[1] EXCEPT !.lane = "sync"]))

\* selectCharacter(char): the updates it queues
selectCharacterUpdates(char, lane) ==
    [NoUpdates EXCEPT !.activeCharId = <<update("set", <<char.id>>, lane)>>,
                      !.formData = <<update("set", <<char>>, lane)>>]

\* createNew: the character it makes at the clock reading t
newCharacter(t) == [EMPTY_CHAR EXCEPT !.id = t, !.name = "New Character"]

\* createNew at the clock reading t: the updates it queues
createNewUpdates(t, lane) ==
    enqueue([NoUpdates EXCEPT !.characters = <<update("append", <<newCharacter(t)>>, lane)>>],
            selectCharacterUpdates(newCharacter(t), lane))

\* the effect "Load from local storage" at the clock reading t: the updates it
\* queues.  The item is absent or holds what the save effect has written.
loadCharacters(item, t) ==
    IF item # <<>>
    THEN enqueue([NoUpdates EXCEPT !.characters = <<update("set", <<item[1]>>, "default")>>],
                 IF Len(item[1]) > 0
                 THEN selectCharacterUpdates(item[1][1], "default")
                 ELSE createNewUpdates(t, "default"))
    ELSE createNewUpdates(t, "default")

\* whether the load effect calls createNew
loadCreates(item) == item = <<>> \/ Len(item[1]) = 0

\* The builder as one record c: item is the storage item, characters,
\* activeCharId, formData and loadingField are the states of the last render,
\* queue and base are React's update queue and base state of each hook, effects
\* are the passive effects of the last render that have not run, and builder is
\* the variable of that name.

\* the passive effects named in due run, in the order of their declaration, with
\* the values of the last render: the save effect, then the effect on
\* [formData.name, formData.role]
runEffects(c, due) ==
    [c EXCEPT !.item = IF "save" \in due THEN saveCharacters(c.characters, @) ELSE @,
              !.queue.characters =
                  IF "sync" \in due /\ c.activeCharId # 0
                  THEN Append(@, update("map", <<c.activeCharId, c.formData>>, "default"))
                  ELSE @,
              !.effects = {}]

\* a render and its commit: every hook reduces its queue.  The save effect is due
\* when the render has applied an update of the list, which makes a new array;
\* the other effect is due when the name or the role of the form has changed.
render(c, takesDefault) ==
    LET r == [h \in Hooks |-> updateReducer(c.queue[h], takesDefault, c.base[h], c.base[h], <<>>)]
        applied == \E i \in 1..Len(c.queue.characters) :
                       takesDefault \/ c.queue.characters[i].lane = "sync"
        renamed == \/ r.formData.memo.name # c.formData.name
                   \/ r.formData.memo.role # c.formData.role
    IN  [c EXCEPT !.characters = r.characters.memo,
                  !.activeCharId = r.activeCharId.memo,
                  !.formData = r.formData.memo,
                  !.loadingField = r.loadingField.memo,
                  !.queue = [characters   |-> r.characters.rest,
                             activeCharId |-> r.activeCharId.rest,
                             formData     |-> r.formData.rest,
                             loadingField |-> r.loadingField.rest],
                  !.base = [characters   |-> r.characters.base,
                            activeCharId |-> r.activeCharId.base,
                            formData     |-> r.formData.base,
                            loadingField |-> r.loadingField.base],
                  !.effects = (IF applied THEN {"save"} ELSE {})
                                  \cup (IF renamed THEN {"sync"} ELSE {}),
                  !.builder = IF takesDefault /\ @ = "mounting" THEN "mounted" ELSE @]

\* the task of a click or keystroke whose handler has queued updates: React
\* renders in the same task.  The passive effects still waiting run first, then
\* the render, which takes the default lane along or not, and the passive
\* effects of a render made for a click run at the end of its commit.
clickRender(c, updates) ==
    LET queued1  == [c EXCEPT !.queue = enqueue(@, updates)]
        flushed  == runEffects(queued1, queued1.effects)
        rendered == render(flushed, syncTakesDefault)
    IN  runEffects(rendered, rendered.effects)

\* the task React has scheduled for the updates of the default lane: the passive
\* effects still waiting run first, then the render of everything queued; its
\* passive effects wait for a task of their own
defaultRender(c) == render(runEffects(c, c.effects), TRUE)

\* the builder as the variables hold it
current ==
    [item |-> lsCharacters, characters |-> characters, activeCharId |-> activeCharId,
     formData |-> formData, loadingField |-> loadingField, queue |-> charQueued,
     base |-> charBase, effects |-> charPending, builder |-> builder]

\* the builder of the first render
mounting ==
    [item |-> lsCharacters, characters |-> InitialState.characters,
     activeCharId |-> InitialState.activeCharId, formData |-> InitialState.formData,
     loadingField |-> InitialState.loadingField, queue |-> NoUpdates,
     base |-> InitialState, effects |-> {}, builder |-> "mounting"]

\* the variables take the builder c
becomes(c) ==
    /\ lsCharacters' = c.item
    /\ characters' = c.characters
    /\ activeCharId' = c.activeCharId
    /\ formData' = c.formData
    /\ loadingField' = c.loadingField
    /\ charQueued' = c.queue
    /\ charBase' = c.base
    /\ charPending' = c.effects
    /\ builder' = c.builder

\* the user enters the character mode (the mode button of App, or a session
\* loaded in that mode): the first render of the builder and, the render being
\* made for a click, its three effects.  The load effect queues its updates; the
\* save effect sees the empty initial list, the third effect no active character.
charMount ==
    /\ builder = "unmounted"
    /\ charEvents < MaxCharEvents
    /\ becomes(runEffects([mounting EXCEPT !.queue = loadCharacters(lsCharacters, now)],
                          {"save", "sync"}))
    /\ now' = IF loadCreates(lsCharacters) THEN now + 1 ELSE now
    /\ charEvents' = charEvents + 1
    /\ UNCHANGED <<charReqs, irregular, lsSessions, appVars>>

\* the task React has scheduled for the updates of the default lane
charRenderQueued ==
    /\ builder # "unmounted"
    /\ \E h \in Hooks : charQueued[h] # <<>>
    /\ becomes(defaultRender(current))
    /\ UNCHANGED <<charReqs, charEvents, now, irregular, lsSessions, appVars>>

\* the task React has scheduled for the passive effects of a render of the
\* default lane
charFlushPassiveEffects ==
    /\ builder # "unmounted"
    /\ charPending # {}
    /\ becomes(runEffects(current, charPending))
    /\ UNCHANGED <<charReqs, charEvents, now, irregular, lsSessions, appVars>>

\* createNew, from the "+" button
createNew ==
    /\ builder # "unmounted"
    /\ charEvents < MaxCharEvents
    /\ becomes(clickRender(current, createNewUpdates(now, "sync")))
    /\ now' = now + 1
    /\ charEvents' = charEvents + 1
    /\ UNCHANGED <<charReqs, irregular, lsSessions, appVars>>

\* selectCharacter(char), char being entry i of the list shown
selectCharacter(i) ==
    /\ builder # "unmounted"
    /\ i \in 1..Len(characters)
    /\ charEvents < MaxCharEvents
    /\ becomes(clickRender(current, selectCharacterUpdates(characters[i], "sync")))
    /\ charEvents' = charEvents + 1
    /\ UNCHANGED <<charReqs, now, irregular, lsSessions, appVars>>

\* handleChange(field, value)
handleChange(field, value) ==
    /\ builder # "unmounted"
    /\ charEvents < MaxCharEvents
    /\ becomes(clickRender(current,
                   [NoUpdates EXCEPT !.formData = <<update("change", <<field, value>>, "sync")>>]))
    /\ charEvents' = charEvents + 1
    /\ UNCHANGED <<charReqs, now, irregular, lsSessions, appVars>>

\* saveCurrent; without an active character it returns at once
saveCurrent ==
    /\ builder # "unmounted"
    /\ charEvents < MaxCharEvents
    /\ IF activeCharId = 0
       THEN UNCHANGED <<lsCharacters, characters, activeCharId, formData, loadingField,
                        charQueued, charBase, charPending, builder>>
       ELSE becomes(clickRender(current,
                [NoUpdates EXCEPT !.characters =
                     <<update("map", <<activeCharId, formData>>, "sync")>>]))
    /\ charEvents' = charEvents + 1
    /\ UNCHANGED <<charReqs, now, irregular, lsSessions, appVars>>

\* deleteCurrent; without an active character it returns at once
deleteCurrent ==
    /\ builder # "unmounted"
    /\ charEvents < MaxCharEvents
    /\ LET newList == SelectSeq(characters, LAMBDA c : c.id # activeCharId)
           setList == [NoUpdates EXCEPT !.characters = <<update("set", <<newList>>, "sync")>>]
       IN  IF activeCharId = 0
           THEN UNCHANGED <<lsCharacters, characters, activeCharId, formData, loadingField,
                            charQueued, charBase, charPending, builder, now>>
           ELSE IF Len(newList) > 0
           THEN /\ becomes(clickRender(current,
                        enqueue(setList, selectCharacterUpdates(newList[1], "sync"))))
                /\ UNCHANGED now
           ELSE /\ becomes(clickRender(current,
                        enqueue(setList, createNewUpdates(now, "sync"))))
                /\ now' = now + 1
    /\ charEvents' = charEvents + 1
    /\ UNCHANGED <<charReqs, irregular, lsSessions, appVars>>

\* setLoadingField(value), called while a click is handled
setLoadingField(value) ==
    [NoUpdates EXCEPT !.loadingField = <<update("set", <<value>>, "sync")>>]

\* generateContent(field), from an "Inspire Me" button, which is disabled while
\* loadingField is set.  With the API key the request is left in flight.  Without
\* it getAI throws inside generateCharacterAttribute, whose promise is rejected:
\* the finally block runs in a microtask of the click, after the render of
\* setLoadingField(field), and React renders once more.
generateContent(field) ==
    /\ builder # "unmounted"
    /\ loadingField = ""
    /\ charEvents < MaxCharEvents
    /\ IF apiKeyOk
       THEN /\ becomes(clickRender(current, setLoadingField(field)))
            /\ charReqs' = <<field>>
       ELSE /\ becomes(clickRender(clickRender(current, setLoadingField(field)),
                                   setLoadingField("")))
            /\ UNCHANGED charReqs
    /\ charEvents' = charEvents + 1
    /\ UNCHANGED <<now, irregular, lsSessions, appVars>>

\* generateContent after its await: generateCharacterAttribute has answered
\* result, and the two setters are called outside of any event
generateContentResumes(result) ==
    /\ charReqs # <<>>
    /\ charQueued' =
           enqueue(charQueued,
                   [NoUpdates EXCEPT
                       !.formData = <<update("inspire", <<charReqs[1], result>>, "default")>>,
                       !.loadingField = <<update("set", <<"">>, "default")>>])
    /\ charReqs' = <<>>
    /\ UNCHANGED <<lsCharacters, characters, activeCharId, formData, loadingField,
                   charBase, charPending, builder, charEvents, now, irregular,
                   lsSessions, appVars>>

\* the user leaves the character mode, by a mode button of App: React renders
\* App in the task of the click.  The passive effects of the builder still
\* waiting run first; the component, its state and its queue are then dropped,
\* and the answer to a request in flight no longer reaches any state.
charUnmount ==
    /\ builder # "unmounted"
    /\ charEvents < MaxCharEvents
    /\ lsCharacters' = runEffects(current, charPending).item
    /\ characters' = InitialState.characters
    /\ activeCharId' = InitialState.activeCharId
    /\ formData' = InitialState.formData
    /\ loadingField' = InitialState.loadingField
    /\ charQueued' = NoUpdates
    /\ charBase' = InitialState
    /\ charPending' = {}
    /\ charReqs' = <<>>
    /\ builder' = "unmounted"
    /\ charEvents' = charEvents + 1
    /\ UNCHANGED <<now, irregular, lsSessions, appVars>>

\* the application as it starts, the builder not shown
CharInit == Init

CharNext ==
    \/ charMount
    \/ charRenderQueued
    \/ charFlushPassiveEffects
    \/ createNew
    \/ \E i \in 1..Len(characters) : selectCharacter(i)
    \/ \E v \in Names : handleChange("name", v)
    \/ \E v \in Roles : handleChange("role", v)
    \/ \E v \in Ages : handleChange("age", v)
    \/ \E v \in Texts : handleChange("backstory", v)
    \/ saveCurrent
    \/ deleteCurrent
    \/ generateContent("backstory")
    \/ \E result \in Results : generateContentResumes(result)
    \/ charUnmount

CharSpec == CharInit /\ [][CharNext]_vars

----------------------------------------------------------------------------
\* C1: starting from empty storage, after any sequence of saveSession and
\* deleteSession calls the stored list holds at most 50 sessions.
C1_AtMostFifty == Len(getSessions(lsSessions)) <= MaxSessions

\* a 51st session has been saved and the list was cut back to 50
C1_Witness ==
    /\ Len(getSessions(lsSessions)) = MaxSessions
    /\ now > MaxSessions + 1

\* C12: starting from empty storage, after any sequence of saveSession and
\* deleteSession calls the stored sessions are in order of non-increasing
\* updatedAt.
C12_NewestFirst ==
    \A i \in 1..(Len(getSessions(lsSessions)) - 1) :
        getSessions(lsSessions)[i].updatedAt >= getSessions(lsSessions)[i + 1].updatedAt

\* a session carrying an old timestamp was saved and sorted into the middle of
\* the list, next to the stored session of the same age
C12_Witness ==
    \E k \in 2..(Len(getSessions(lsSessions)) - 1) :
        /\ getSessions(lsSessions)[k].updatedAt = getSessions(lsSessions)[k + 1].updatedAt
        /\ getSessions(lsSessions)[k].id > getSessions(lsSessions)[k + 1].id
        /\ getSessions(lsSessions)[1].updatedAt > getSessions(lsSessions)[k].updatedAt

\* kept is what a save of session onto the full list stored leaves: 50 of the 51
\* candidates, none of them older than the candidate left out, and session
\* itself among them when some stored session is older than it
keepsNewestFifty(stored, session, kept) ==
    LET candidates == {stored[i] : i \in 1..Len(stored)} \cup {session}
        keptSet    == {kept[i] : i \in 1..Len(kept)}
    IN  /\ Len(kept) = MaxSessions
        /\ Cardinality(keptSet) = MaxSessions
        /\ keptSet \subseteq candidates
        /\ \A dropped \in candidates \ keptSet :
               \A k \in keptSet : k.updatedAt >= dropped.updatedAt
        /\ (\E i \in 1..Len(stored) : stored[i].updatedAt < session.updatedAt)
               => session \in keptSet

\* the timestamps a session is saved with onto the list stored: older than, as
\* old as and newer than the oldest session stored, as new as the newest, and the
\* current clock reading
candidateTimes(stored) ==
    {0, stored[Len(stored)].updatedAt, stored[Len(stored)].updatedAt + 1,
     stored[1].updatedAt, now}

\* C13: when saveSession is called with 50 sessions stored and a session whose
\* id is not among them, the sessions kept are the 50 with the greatest updatedAt
\* of the 51 candidates, and the session saved is kept whenever some stored
\* session has a smaller updatedAt.
C13_KeepsNewestFifty ==
    (Len(getSessions(lsSessions)) = MaxSessions /\ freshId(lsSessions) # 0) =>
        \A t \in candidateTimes(getSessions(lsSessions)) :
            keepsNewestFifty(getSessions(lsSessions), mkSession(freshId(lsSessions), t),
                             saveSession(lsSessions, mkSession(freshId(lsSessions), t)))

\* a session with an old timestamp was saved onto a full list: it was kept, next
\* to the stored session of the same age, and the oldest session was left out
C13_Witness ==
    /\ Len(getSessions(lsSessions)) = MaxSessions
    /\ irregular = 1
    /\ now = MaxSessions + 1
    /\ getSessions(lsSessions)[MaxSessions].updatedAt = MaxStale
    /\ getSessions(lsSessions)[MaxSessions - 1].updatedAt = MaxStale
    /\ getSessions(lsSessions)[MaxSessions - 1].id > MaxSessions

----------------------------------------------------------------------------
(* The fallback loop, under StreamSpec                                     *)

errorChunksEmitted == {i \in 1..Len(emitted) : emitted[i].kind = "error"}

\* the error's text holds one of the six literals the claims name
namedRecoverable(error) ==
    \E pat \in {P403, P429, P503, PNotFound, PPermissionDenied, PResourceExhausted} :
        includes(errStr(error), pat)

\* the last model tried so far has succeeded
succeeded == rsp.pc = "returned" /\ Len(failures) < Len(attempts)

C2_State ==
    /\ Len(attempts) <= 3
    /\ attempts = SubSeq(<<"gemini-3-pro-preview", "gemini-3-flash-preview",
                           "gemini-2.5-flash-latest">>, 1, Len(attempts))
    /\ Len(attempts) > 0 => Len(failures) \in {Len(attempts) - 1, Len(attempts)}
    /\ succeeded => errorChunksEmitted = {}

C2_Step ==
    /\ Len(attempts') > Len(attempts) /\ Len(attempts') > 1
           => Len(failures') = Len(attempts') - 1 /\ Len(failures') = Len(failures) + 1
    /\ succeeded /\ sends' = sends => attempts' = attempts /\ emitted' = emitted

\* C2: a streamResponse call tries gemini-3-pro-preview, gemini-3-flash-preview,
\* gemini-2.5-flash-latest in this order, each at most once; a later model is
\* tried only when the one before it has failed; once a model succeeds no other
\* model is tried and no error chunk is emitted; there are at most three attempts.
C2_FallbackOrder == []C2_State /\ [][C2_Step]_vars

\* the third model succeeded after the first two had failed
C2_Witness == succeeded /\ Len(attempts) = 3 /\ Len(emitted) > 0

\* C3: a failed model is followed by the next model if and only if the error's
\* text holds "403", "429", "503", "not found", "PERMISSION_DENIED" or
\* "RESOURCE_EXHAUSTED"; after any other error no later model is tried, exactly
\* one error chunk has been passed to onChunk and the call has returned.
C3_RetryIffRecoverable ==
    \A i \in 1..Len(failures) :
        /\ i < 3 => (Len(attempts) > i <=> namedRecoverable(failures[i]))
        /\ ~namedRecoverable(failures[i]) =>
              /\ Len(attempts) = i
              /\ Len(failures) = i
              /\ Cardinality(errorChunksEmitted) = 1
              /\ rsp.pc = "returned"

\* the second model failed with an error that is not retried
C3_Witness ==
    /\ Len(failures) = 2
    /\ namedRecoverable(failures[1])
    /\ ~namedRecoverable(failures[2])

\* C7: when all three models have failed with recoverable errors, exactly one
\* error chunk has been passed to onChunk, it is built from the error of the last
\* model tried, and streamResponse has returned instead of throwing.
C7_AllFailed ==
    (Len(failures) = 3 /\ \A i \in 1..3 : namedRecoverable(failures[i])) =>
        /\ rsp.pc = "returned"
        /\ errorChunksEmitted = {Len(emitted)}
        /\ emitted[Len(emitted)].text = <<"\n\n">> \o getFriendlyErrorMessage(failures[3])

\* three recoverable failures whose friendly messages differ from one another
C7_Witness ==
    /\ Len(failures) = 3
    /\ \A i \in 1..3 : namedRecoverable(failures[i])
    /\ getFriendlyErrorMessage(failures[3]) # getFriendlyErrorMessage(failures[1])
    /\ getFriendlyErrorMessage(failures[3]) # getFriendlyErrorMessage(failures[2])
    /\ Len(emitted) > 1

----------------------------------------------------------------------------
(* The application, under Spec and FairSpec                                *)

RECURSIVE concatChunks(_)
concatChunks(chunks) ==
    IF chunks = <<>> THEN <<>> ELSE chunks[1].text \o concatChunks(Tail(chunks))

\* the queue holds the update of a chunk callback
hasContentUpdate(q) == \E i \in 1..Len(q) : q[i].op = "content"

C4_Step ==
    (hasContentUpdate(queued) /\ ~hasContentUpdate(queued')) =>
        /\ \A i \in 1..Len(messages') :
              messages'[i].id = rsp.botMsgId =>
                  messages'[i].content = concatChunks(emitted)
        /\ (currentSessionId' = currentSessionId /\ Len(messages') = Len(messages)) =>
              \A i \in 1..Len(messages) :
                  messages[i].id # rsp.botMsgId =>
                      messages'[i].content = messages[i].content

\* C4: once React has processed the updates of the chunk callbacks of a
\* response, the content of its placeholder message, where it is displayed, is
\* the concatenation, in arrival order, of the chunks delivered so far for it,
\* and no other message displayed has changed its content.
C4_ChunksAccumulate == [][C4_Step]_vars

\* storage holds a session with the current id whose messages are the
\* transcript displayed
transcriptStored ==
    \E i \in 1..Len(getSessions(lsSessions)) :
        /\ getSessions(lsSessions)[i].id = currentSessionId
        /\ getSessions(lsSessions)[i].messages = messages

\* C5 as the specification states it: after every change to the transcript
\* displayed, made while a session id is set and the transcript holds more than
\* the greeting, storage holds a session with the current id whose messages are
\* the transcript displayed.  A change is displayed by a render, and the render
\* of updates queued by a chunk, a failure or a finally block leaves its Save
\* Session Effect to a later task.
C5_StoredAfterEveryChange ==
    (currentSessionId # 0 /\ Len(messages) > 1) => transcriptStored

\* C5: whenever a session id is set and the transcript displayed holds more than
\* the greeting, then, once the Save Session Effect of the render that displayed
\* the last change has run, storage holds a session with the current id whose
\* messages are the transcript displayed.
C5_TranscriptStored ==
    (~pending /\ currentSessionId # 0 /\ Len(messages) > 1) => transcriptStored

\* a chunk has been streamed into the transcript, rendered, and the effect of
\* that render has run on its own
C5_Witness ==
    /\ ~pending
    /\ shared
    /\ queued = <<>>
    /\ currentSessionId # 0
    /\ Len(messages) > 1
    /\ messages[Len(messages)].content # <<>>
    /\ messages[Len(messages)].isStreaming

storedTitle(item, id) == getSessions(item)[findIndex(getSessions(item), id)].title

\* titleReqs without its k-th call
withoutCall(calls, k) == SubSeq(calls, 1, k - 1) \o SubSeq(calls, k + 1, Len(calls))

C8_Step ==
    /\ \A k \in 1..Len(titleReqs) :
          (titleReqs' = withoutCall(titleReqs, k)
              /\ titleReqs[k] \in storedIds(lsSessions)) =>
              /\ titleReqs[k] \in storedIds(lsSessions')
              /\ storedTitle(lsSessions', titleReqs[k]) = queued'[Len(queued')].arg[1]
    /\ titleReqs' = titleReqs =>
          \A sid \in storedIds(lsSessions) \cap storedIds(lsSessions') :
              storedTitle(lsSessions, sid) # DefaultTitle =>
                  storedTitle(lsSessions', sid) # DefaultTitle

\* C8: when title generation completes for a session that is stored, the
\* generated title is written to storage, and no later save of that session sets
\* its title back to 'New Story Idea'.
C8_TitleKept == [][C8_Step]_vars

\* C9: a session deleted through deleteChatSession is absent from storage and
\* from the session list, and stays absent.
C9_DeletedStaysDeleted ==
    \A id \in hist.deleted :
        /\ id \notin storedIds(lsSessions)
        /\ \A i \in 1..Len(sessions) : sessions[i].id # id

\* the queue holds the updates of a finally block
hasLoadingUpdate(q) == \E i \in 1..Len(q) : q[i].op = "isLoading"

C10_Step ==
    \/ hasLoadingUpdate(queued) /\ ~hasLoadingUpdate(queued')
    \/ rsp' # rsp /\ rsp'.pc = "thrown"
    => /\ ~isLoading'
       /\ \A i \in 1..Len(messages') :
             messages'[i].id = rsp'.botMsgId => ~messages'[i].isStreaming

\* C10: every response that is started finishes, and when it has finished and
\* React has processed the updates of the finally block, whether streamResponse
\* returned or threw, isLoading is false and the placeholder of the response,
\* where it is displayed, is no longer marked isStreaming.
C10_ResponseFinishes ==
    /\ [][C10_Step]_vars
    /\ (rsp.pc = "streaming") ~> (rsp.pc # "streaming" /\ ~isLoading)

----------------------------------------------------------------------------
(* The character builder, under CharSpec                                   *)

storedCharacters == IF lsCharacters = <<>> THEN <<>> ELSE lsCharacters[1]

\* React has rendered every update of the character list, and the save effect
\* of the last render has run
listSettled == charQueued.characters = <<>> /\ "save" \notin charPending

C6_Step ==
    Len(storedCharacters) > 0 => Len(storedCharacters') > 0

\* C6 as the specification states it: once the builder has loaded, after any
\* create, select, edit, save or delete the character list in local storage is
\* the list in memory; and mounting the builder never replaces a stored list
\* that is not empty by an empty one.  The list in memory changes with a render,
\* storage with the save effect of that render, which a render of the default
\* lane leaves to a later task.
C6_StoredAfterEveryOperation ==
    /\ [](builder = "mounted" => storedCharacters = characters)
    /\ [][C6_Step]_vars

\* C6: once the builder has loaded, whenever React has rendered every update of
\* the character list and the save effect of the last render has run, the
\* character list in local storage is the list in memory; and no step, the
\* mounting of the builder included, replaces a stored list that is not empty
\* by an empty one.
C6_CharactersStored ==
    /\ []((builder = "mounted" /\ listSettled) => storedCharacters = characters)
    /\ [][C6_Step]_vars

\* with two characters in the list, one of them was renamed and its edited age
\* was saved; React has rendered everything and every effect has run
C6_Witness ==
    /\ builder = "mounted"
    /\ charQueued = NoUpdates
    /\ charPending = {}
    /\ Len(characters) = 2
    /\ storedCharacters = characters
    /\ \E i \in 1..2 : characters[i].age = "30" /\ characters[i].name = "Ann"

\* the entry of the list chars with the given id (chars holds one)
characterById(chars, id) ==
    chars[CHOOSE i \in 1..Len(chars) : chars[i].id = id]

\* a step in which the mounted builder goes from one active character to another
\* while the character left stays in the list (selectCharacter from the list, or
\* through createNew)
switchesCharacter ==
    /\ builder = "mounted" /\ builder' = "mounted"
    /\ activeCharId # 0
    /\ activeCharId' # activeCharId
    /\ \E i \in 1..Len(characters') : characters'[i].id = activeCharId

C11_Step ==
    switchesCharacter => characterById(characters', activeCharId) = formData

\* C11: after the user selects a different character, the character that was
\* active before holds, in the list, the field values that were in the form.
C11_EditsSavedOnSwitch == [][C11_Step]_vars

====
